---- MODULE Spec2Model ----
(***************************************************************************)
(* Cremalink Home Assistant integration: the update coordinators           *)
(* (coordinator.py), entry setup with the brew service (__init__.py) and   *)
(* the sensor, button and select platforms.                                *)
(*                                                                         *)
(* Spec      : one fast coordinator and, for a cloud device, one           *)
(*             properties coordinator, polled by the host at any time.     *)
(* SpecEntry : config entries being set up by the host, the per-entry      *)
(*             registry hass.data[DOMAIN], and the brew service.           *)
(* SpecRecipes: a button's extra attributes over any list of recipes.      *)
(* SpecSelect : the profile selector (select.py) with properties polls     *)
(*             and button presses.                                         *)
(* SpecButton : the button platform (button.py): setup, presses and        *)
(*             availability.                                               *)
(* SpecAtomic : the polls of both coordinators, one await at a time.       *)
(* SpecSensor : the sensor platform's setup (sensor.py).                   *)
(* SpecLifecycle: config entries being set up and unloaded by the host.    *)
(***************************************************************************)
EXTENDS Integers, Sequences, FiniteSets, TLC

(***************************************************************************)
(* Program constants                                                       *)
(***************************************************************************)
CONNECTION_LOCAL == "local"
CONNECTION_CLOUD == "cloud"
APP_ID_REFRESH_INTERVAL == 60
PROPERTIES_SCAN_INTERVAL == 300
SCAN_INTERVAL_FAST == 1
SCAN_INTERVAL_SLOW == 30

(***************************************************************************)
(* Bounds of the model                                                     *)
(***************************************************************************)
\* time.monotonic() is followed up to MaxTime seconds
MaxTime == 125
\* seconds that may pass between two polls (besides none at all)
TickSteps == {30, 31}
\* consecutive side-channel failures that are counted
MaxFailures == 2

(***************************************************************************)
(* Values read from the device                                             *)
(***************************************************************************)
\* data.parsed.get("status") when the parsed dict has no "status" key
NoStatus == -1
\* status codes the device reports: 0 is standby, 7 stands for any other
Statuses == {0, 7}
\* coordinator.data before any poll, or a read that returned None
NoData == [present |-> FALSE, status |-> NoStatus]
Snapshot(s) == [present |-> TRUE, status |-> s]
\* what get_monitor can return
MonitorValues == {NoData} \cup {Snapshot(s) : s \in Statuses \cup {NoStatus}}
\* outcome of a blocking device call: it returns a value or it raises
Raise == [res |-> "raise", val |-> NoData]
Return(v) == [res |-> "ok", val |-> v]
MonitorOutcomes == {Raise} \cup {Return(v) : v \in MonitorValues}
\* outcome of the side-channel call of a poll, if it makes one:
\* activate_app_connection returns True or False, or raises; _refresh_app_id
\* returns a value that is ignored, or raises
SideOutcomes == {"true", "false", "raise"}
\* what is seen of a _refresh_app_id call: that it returned, or raised
Returned(o) == IF o = "raise" THEN "raise" ELSE "ok"

\* what get_properties returns: the device's properties snapshot, read through
\* get_counters(), get_profile_names() and get_recipes()
Recipe(b, p) == [bev_id |-> b, profile |-> p]
PropertiesSnapshots ==
    {[counters |-> [espresso |-> 3, latte |-> 0],
      profile_names |-> <<"Anna", "Ben">>,
      recipes |-> <<Recipe(1, 2), Recipe(1, 1)>>],
     [counters |-> [espresso |-> 4, latte |-> 1],
      profile_names |-> <<"Anna", "Cleo">>,
      recipes |-> <<Recipe(2, 1)>>]}
PropertiesOutcomes == {[res |-> "raise", val |-> 0]} \cup
                      {[res |-> "ok", val |-> s] : s \in PropertiesSnapshots}
\* the properties coordinator's data before any poll
NoProps == [present |-> FALSE, counters |-> [espresso |-> 0, latte |-> 0],
            profile_names |-> <<>>, recipes |-> <<>>]
\* the record built from a snapshot
PropertiesData(snapshot) ==
    [present |-> TRUE,
     counters |-> snapshot.counters,
     profile_names |-> snapshot.profile_names,
     recipes |-> snapshot.recipes]

VARIABLES
    \* ---- fast coordinator (CremalinkCoordinator)
    connection_type,        \* "local" or "cloud"
    now,                    \* time.monotonic(), seconds
    app_id_activated,       \* self._app_id_activated
    last_app_id_refresh,    \* self._last_app_id_refresh
    update_interval,        \* self.update_interval, seconds
    data,                   \* self.data, the cached status snapshot
    last_update_success,    \* self.last_update_success
    \* ---- properties coordinator (CremalinkPropertiesCoordinator)
    props_data,             \* self.data, the cached PropertiesData
    props_last_update_success,
    \* ---- what the last poll cycle of each coordinator did
    calls,                  \* device calls of the last fast cycle, in order
    outcome,                \* how the last fast cycle ended
    props_outcome,          \* how the last properties cycle ended
    \* ---- history
    last_status,            \* the last status a read has shown
    prev_interval,          \* update_interval before the last fast cycle
    side_ok_at,             \* time of the last side-channel call that returned
    activation_returned,    \* an activate_app_connection call has returned
    side_failures,          \* fast cycles in a row whose side-channel call raised
    \* ---- config entries, the registry and the brew service (__init__.py)
    entry_conn,             \* entry.data[CONF_CONNECTION_TYPE] of each entry
    entry_map,              \* entry.data[CONF_DEVICE_MAP] of each entry
    entry_state,            \* the host's state of each config entry
    registry,               \* hass.data[DOMAIN]: the entries' records, in
                            \* insertion order
    service_registered,     \* hass.services.has_service(DOMAIN, SERVICE_BREW)
    last_setup,             \* what the last async_setup_entry did
    last_brew,              \* what the last brew service call did
    \* ---- a button's extra attributes (button.py)
    btn_bev,                \* _CATALOG.get_by_name(self._cmd): the beverage id
    btn_attrs,              \* what extra_state_attributes last returned
    \* ---- the profile selector (select.py)
    sel_state,              \* "none", "skipped", "created" or "added"
    sel_profile_names,      \* self._profile_names
    sel_selected,           \* self._selected_profile
    persisted,              \* what async_get_last_state returns
    last_select,            \* the last async_select_option call
    \* ---- the buttons (button.py)
    device_cmds,            \* what device.get_commands() returns
    btn_setup,              \* "none", "done" or "failed": the platform's setup
    buttons,                \* the commands of the button entities, in order
    last_press,             \* what the last async_press did
    \* ---- a poll of each coordinator, followed step by step
    pc_fast,                \* where the fast coordinator's poll stands
    fast_local,             \* its local variable data
    pc_props,               \* where the properties coordinator's poll stands
    props_snapshot,         \* its local variable snapshot
    props_local,            \* the PropertiesData it is constructing
    seen_fast,              \* coordinator.data as an entity last read it
    seen_props,             \* the properties coordinator's data likewise
    \* ---- the sensor platform (sensor.py)
    sensor_setup,           \* how the platform's setup ended, "none" before
    sensors,                \* the entities given to async_add_entities
    setup_counters          \* props.counters as the setup read them

pollVars == <<connection_type, now, app_id_activated, last_app_id_refresh,
              update_interval, data, last_update_success, props_data,
              props_last_update_success, calls, outcome, props_outcome,
              last_status, prev_interval, side_ok_at, activation_returned,
              side_failures>>

entryVars == <<entry_conn, entry_map, entry_state, registry,
               service_registered, last_setup, last_brew>>

recipeVars == <<btn_bev, btn_attrs>>

\* the variables of the platforms (button.py, select.py, sensor.py)
selectVars == <<sel_state, sel_profile_names, sel_selected, persisted,
                last_select>>

buttonVars == <<device_cmds, btn_setup, buttons, last_press>>

atomicVars == <<pc_fast, fast_local, pc_props, props_snapshot, props_local,
                seen_fast, seen_props>>

sensorVars == <<sensor_setup, sensors, setup_counters>>

platVars == <<recipeVars, selectVars, buttonVars, atomicVars, sensorVars>>

(***************************************************************************)
(* CremalinkCoordinator._async_ensure_app_connection                       *)
(***************************************************************************)
\* (variant: the refresh already falls due at exactly the interval)
RefreshDue_AtInterval(t, last) == t - last >= APP_ID_REFRESH_INTERVAL

\* now - self._last_app_id_refresh > APP_ID_REFRESH_INTERVAL
RefreshDue(t, last) == t - last > APP_ID_REFRESH_INTERVAL

Call(n, r) == [name |-> n, res |-> r]

\* (variant: the activated flag is never set)
EnsureAppConnection_FlagNeverSet(o) ==
    IF connection_type # CONNECTION_CLOUD
    THEN [activated |-> app_id_activated, last |-> last_app_id_refresh,
          calls |-> <<>>, raised |-> FALSE]
    ELSE IF ~app_id_activated
    THEN [activated |-> app_id_activated,
          last |-> IF o # "raise" THEN now ELSE last_app_id_refresh,
          calls |-> <<Call("activate_app_connection", o)>>, raised |-> FALSE]
    ELSE IF RefreshDue(now, last_app_id_refresh)
    THEN [activated |-> app_id_activated,
          last |-> IF o # "raise" THEN now ELSE last_app_id_refresh,
          calls |-> <<Call("_refresh_app_id", Returned(o))>>, raised |-> FALSE]
    ELSE [activated |-> app_id_activated, last |-> last_app_id_refresh,
          calls |-> <<>>, raised |-> FALSE]

\* (variant: the two calls are made without try/except)
EnsureAppConnection_NoCatch(o) ==
    IF connection_type # CONNECTION_CLOUD
    THEN [activated |-> app_id_activated, last |-> last_app_id_refresh,
          calls |-> <<>>, raised |-> FALSE]
    ELSE IF ~app_id_activated
    THEN [activated |-> (o # "raise"),
          last |-> IF o # "raise" THEN now ELSE last_app_id_refresh,
          calls |-> <<Call("activate_app_connection", o)>>,
          raised |-> (o = "raise")]
    ELSE IF RefreshDue(now, last_app_id_refresh)
    THEN [activated |-> app_id_activated,
          last |-> IF o # "raise" THEN now ELSE last_app_id_refresh,
          calls |-> <<Call("_refresh_app_id", Returned(o))>>, raised |-> (o = "raise")]
    ELSE [activated |-> app_id_activated, last |-> last_app_id_refresh,
          calls |-> <<>>, raised |-> FALSE]

\* (variant: the refresh time is stored before the call is awaited, so a
\* failed refresh waits a whole interval)
EnsureAppConnection_Backoff(o) ==
    IF connection_type # CONNECTION_CLOUD
    THEN [activated |-> app_id_activated, last |-> last_app_id_refresh,
          calls |-> <<>>, raised |-> FALSE]
    ELSE IF ~app_id_activated
    THEN [activated |-> (o # "raise"),
          last |-> IF o # "raise" THEN now ELSE last_app_id_refresh,
          calls |-> <<Call("activate_app_connection", o)>>, raised |-> FALSE]
    ELSE IF RefreshDue(now, last_app_id_refresh)
    THEN [activated |-> app_id_activated, last |-> now,
          calls |-> <<Call("_refresh_app_id", Returned(o))>>, raised |-> FALSE]
    ELSE [activated |-> app_id_activated, last |-> last_app_id_refresh,
          calls |-> <<>>, raised |-> FALSE]

\* The side-channel step of a poll made at time now: the new flag, the new
\* refresh time, the device calls made, and whether an exception leaves the
\* method (both calls sit in a try/except Exception, so none does).
EnsureAppConnection(o) ==
    IF connection_type # CONNECTION_CLOUD
    THEN [activated |-> app_id_activated, last |-> last_app_id_refresh,
          calls |-> <<>>, raised |-> FALSE]
    ELSE IF ~app_id_activated
    THEN IF o # "raise"
         THEN [activated |-> TRUE, last |-> now,
               calls |-> <<Call("activate_app_connection", o)>>, raised |-> FALSE]
         ELSE [activated |-> app_id_activated, last |-> last_app_id_refresh,
               calls |-> <<Call("activate_app_connection", o)>>, raised |-> FALSE]
    ELSE IF RefreshDue(now, last_app_id_refresh)
    THEN IF o # "raise"
         THEN [activated |-> app_id_activated, last |-> now,
               calls |-> <<Call("_refresh_app_id", Returned(o))>>, raised |-> FALSE]
         ELSE [activated |-> app_id_activated, last |-> last_app_id_refresh,
               calls |-> <<Call("_refresh_app_id", Returned(o))>>, raised |-> FALSE]
    ELSE [activated |-> app_id_activated, last |-> last_app_id_refresh,
          calls |-> <<>>, raised |-> FALSE]

(***************************************************************************)
(* CremalinkCoordinator._async_update_data                                 *)
(***************************************************************************)
\* (variant: the interval is widened for standby and never narrowed again)
NextInterval_NeverFast(d, cur) ==
    IF d.present /\ d.status = 0 THEN SCAN_INTERVAL_SLOW ELSE cur

\* the interval after a successful read of d, cur being the interval before
NextInterval(d, cur) ==
    IF d.present
    THEN IF d.status = 0 THEN SCAN_INTERVAL_SLOW
         ELSE IF d.status # NoStatus THEN SCAN_INTERVAL_FAST
         ELSE cur
    ELSE cur

\* (variant: a failed read is swallowed and the cycle returns None)
UpdateData_ReturnsNone(sideRaised, m, cur) ==
    IF sideRaised \/ m.res = "raise"
    THEN [outcome |-> "ok", data |-> NoData, read |-> ~sideRaised]
    ELSE [outcome |-> "ok", data |-> m.val, read |-> TRUE]

\* How the cycle ends given whether the side-channel step raised and what
\* get_monitor did (m), cur being the cached snapshot: the read is skipped
\* when the step before it raised; any Exception becomes UpdateFailed, on
\* which the host keeps the cached snapshot; a returned value replaces it.
UpdateData(sideRaised, m, cur) ==
    IF sideRaised \/ m.res = "raise"
    THEN [outcome |-> "UpdateFailed", data |-> cur, read |-> ~sideRaised]
    ELSE [outcome |-> "ok", data |-> m.val, read |-> TRUE]

\* One poll cycle of the fast coordinator, with the outcomes of the device
\* calls it may make: o of the side-channel call, m of get_monitor.
AsyncUpdateData(o, m) ==
    LET ens == EnsureAppConnection(o)
        upd == UpdateData(ens.raised, m, data)
        ok  == upd.outcome = "ok"
        sideReturned == ens.calls # <<>> /\ ens.calls[1].res # "raise"
        sideFailed == ens.calls # <<>> /\ ens.calls[1].res = "raise"
    IN  /\ app_id_activated' = ens.activated
        /\ last_app_id_refresh' = ens.last
        /\ calls' = ens.calls \o
                    (IF upd.read THEN <<Call("get_monitor", m.res)>> ELSE <<>>)
        /\ outcome' = upd.outcome
        /\ data' = upd.data
        /\ last_update_success' = ok
        /\ update_interval' =
              IF ok THEN NextInterval(m.val, update_interval) ELSE update_interval
        /\ prev_interval' = update_interval
        /\ last_status' =
              IF ok /\ m.val.present /\ m.val.status # NoStatus
              THEN m.val.status ELSE last_status
        /\ side_ok_at' = IF sideReturned THEN now ELSE side_ok_at
        /\ activation_returned' =
              (activation_returned \/
               (sideReturned /\ ens.calls[1].name = "activate_app_connection"))
        /\ side_failures' =
              IF sideFailed
              THEN (IF side_failures < MaxFailures
                    THEN side_failures + 1 ELSE MaxFailures)
              ELSE 0
        /\ UNCHANGED <<connection_type, now, props_data,
                       props_last_update_success, props_outcome>>
        /\ UNCHANGED entryVars
        /\ UNCHANGED platVars

FastPoll ==
    \E o \in SideOutcomes, m \in MonitorOutcomes :
        AsyncUpdateData(o, m)

(***************************************************************************)
(* CremalinkPropertiesCoordinator._async_update_data                       *)
(***************************************************************************)
\* How a properties cycle ends given what get_properties did (p), cur being
\* the cached record.
UpdateProperties(p, cur) ==
    IF p.res = "raise"
    THEN [outcome |-> "UpdateFailed", data |-> cur]
    ELSE [outcome |-> "ok", data |-> PropertiesData(p.val)]

\* One poll cycle of the properties coordinator, which exists for cloud
\* devices only.
AsyncUpdateProperties(p) ==
    LET upd == UpdateProperties(p, props_data)
    IN  /\ connection_type = CONNECTION_CLOUD
        /\ props_outcome' = upd.outcome
        /\ props_data' = upd.data
        /\ props_last_update_success' = (upd.outcome = "ok")
        /\ UNCHANGED <<connection_type, now, app_id_activated,
                       last_app_id_refresh, update_interval, data,
                       last_update_success, calls, outcome, last_status,
                       prev_interval, side_ok_at, activation_returned,
                       side_failures>>
        /\ UNCHANGED entryVars
        /\ UNCHANGED platVars

PropertiesPoll == \E p \in PropertiesOutcomes : AsyncUpdateProperties(p)

(***************************************************************************)
(* The clock                                                               *)
(***************************************************************************)
Tick ==
    \E d \in TickSteps :
        /\ now + d <= MaxTime
        /\ now' = now + d
        /\ UNCHANGED <<connection_type, app_id_activated, last_app_id_refresh,
                       update_interval, data, last_update_success, props_data,
                       props_last_update_success, calls, outcome,
                       props_outcome, last_status, prev_interval, side_ok_at,
                       activation_returned, side_failures>>
        /\ UNCHANGED entryVars
        /\ UNCHANGED platVars

(***************************************************************************)
(* Specification of the coordinators                                       *)
(***************************************************************************)
PollInit ==
    /\ connection_type \in {CONNECTION_LOCAL, CONNECTION_CLOUD}
    /\ now = 0
    /\ app_id_activated = FALSE
    /\ last_app_id_refresh = 0
    /\ update_interval = SCAN_INTERVAL_FAST
    /\ data = NoData
    /\ last_update_success = TRUE
    /\ props_data = NoProps
    /\ props_last_update_success = TRUE
    /\ calls = <<>>
    /\ outcome = "none"
    /\ props_outcome = "none"
    /\ last_status = NoStatus
    /\ prev_interval = SCAN_INTERVAL_FAST
    /\ side_ok_at = -1
    /\ activation_returned = FALSE
    /\ side_failures = 0

(***************************************************************************)
(* Names and entries (__init__.py, const.py)                               *)
(***************************************************************************)
\* the names "from .const import *" brings into __init__.py: every name
\* const.py assigns
ConstNames ==
    {"DEVICE_NAME", "DOMAIN", "CONF_ADDON_URL", "CONF_DSN", "CONF_LAN_KEY",
     "CONF_DEVICE_IP", "CONF_DEVICE_MAP", "CONF_CONNECTION_TYPE",
     "CONF_REFRESH_TOKEN", "CONF_TOKEN_FILE", "CONF_EMAIL", "CONF_PASSWORD",
     "CONNECTION_LOCAL", "CONNECTION_CLOUD", "DEFAULT_ADDON_URL",
     "CUSTOM_MAP_DIR", "TOKEN_DIR", "APP_ID_REFRESH_INTERVAL",
     "PROPERTIES_SCAN_INTERVAL"}
\* whether evaluating the global name n in __init__.py finds a value; if not
\* Python raises NameError
NameDefined(n) == n \in ConstNames

Entries == {"e1", "e2"}
\* connection types an entry may hold; "other" is any unknown value
ConnectionTypes == {CONNECTION_LOCAL, CONNECTION_CLOUD, "other"}
\* device-map selections: the first entry names a built-in map, the second
\* a custom file ("custom:<filename>")
EntryMaps == [e \in Entries |-> IF e = "e1" THEN "builtin" ELSE "custom:file"]
\* outcomes of a blocking call made during setup
CallOutcomes == {"ok", "raise"}
\* outcomes of creating the device: get_device may also return None
DeviceOutcomes == {"ok", "raise", "none"}

\* the record async_setup_entry stores for an entry; the entry id stands for
\* the device handle and for the coordinators built for it
EntryData(e, conn) ==
    [entry_id |-> e, device |-> e, coordinator |-> e, selected_profile |-> 1,
     properties_coordinator |-> (conn = CONNECTION_CLOUD)]

RegistryIds == {registry[i].entry_id : i \in 1..Len(registry)}

\* hass.data[DOMAIN][entry_id] = rec: a dict keeps the place of a key it has
Put(reg, rec) ==
    IF \E i \in 1..Len(reg) : reg[i].entry_id = rec.entry_id
    THEN [i \in 1..Len(reg) |->
            IF reg[i].entry_id = rec.entry_id THEN rec ELSE reg[i]]
    ELSE Append(reg, rec)

(***************************************************************************)
(* async_setup_entry                                                       *)
(***************************************************************************)
SetupEnd(stage, result, wrote) ==
    [stage |-> stage, result |-> result, wrote |-> wrote]

\* (variant: a device map that cannot be resolved raises ConfigEntryNotReady)
SetupOutcome_MapNotReady(conn, map, mapRes, devRes, cfgRes, firstRes, propsRes) ==
    IF map = "builtin" /\ mapRes = "raise"
    THEN SetupEnd("device_map", "ConfigEntryNotReady", FALSE)
    ELSE IF conn \notin {CONNECTION_LOCAL, CONNECTION_CLOUD}
    THEN SetupEnd("connection_type", "False", FALSE)
    ELSE IF devRes = "raise" \/ (conn = CONNECTION_CLOUD /\ devRes = "none")
    THEN SetupEnd("create_device", "ConfigEntryNotReady", FALSE)
    ELSE IF devRes = "none" \/ cfgRes = "raise"
    THEN SetupEnd("configure", "ConfigEntryNotReady", FALSE)
    ELSE IF firstRes = "raise"
    THEN SetupEnd("first_refresh", "ConfigEntryNotReady", FALSE)
    ELSE IF conn = CONNECTION_CLOUD /\ propsRes = "raise"
    THEN SetupEnd("properties_first_refresh", "ConfigEntryNotReady", FALSE)
    ELSE IF ~NameDefined("SERVICE_BREW")
    THEN SetupEnd("brew_service", "NameError", TRUE)
    ELSE SetupEnd("done", "True", TRUE)

\* Where async_setup_entry ends, how, and whether it has written the entry's
\* record by then, for an entry with connection type conn and device map
\* selection map, given the outcomes of the calls it makes in order: mapRes of
\* device_map, devRes of creating the device, cfgRes of device.configure,
\* firstRes and propsRes of the coordinators' first refresh.
SetupOutcome(conn, map, mapRes, devRes, cfgRes, firstRes, propsRes) ==
    IF map = "builtin" /\ mapRes = "raise"
    THEN SetupEnd("device_map", "False", FALSE)
    ELSE IF conn \notin {CONNECTION_LOCAL, CONNECTION_CLOUD}
    THEN SetupEnd("connection_type", "False", FALSE)
    ELSE IF devRes = "raise" \/ (conn = CONNECTION_CLOUD /\ devRes = "none")
    THEN SetupEnd("create_device", "ConfigEntryNotReady", FALSE)
    ELSE IF devRes = "none" \/ cfgRes = "raise"
    THEN SetupEnd("configure", "ConfigEntryNotReady", FALSE)
    ELSE IF firstRes = "raise"
    THEN SetupEnd("first_refresh", "ConfigEntryNotReady", FALSE)
    ELSE IF conn = CONNECTION_CLOUD /\ propsRes = "raise"
    THEN SetupEnd("properties_first_refresh", "ConfigEntryNotReady", FALSE)
    ELSE IF ~NameDefined("SERVICE_BREW")
    THEN SetupEnd("brew_service", "NameError", TRUE)
    ELSE SetupEnd("done", "True", TRUE)

\* the state the host gives an entry whose setup ended with result: True
\* loads it, ConfigEntryNotReady schedules a retry, False or any other
\* exception is a setup error, which the host does not retry
HostState(result) ==
    CASE result = "True" -> "loaded"
      [] result = "ConfigEntryNotReady" -> "setup_retry"
      [] OTHER -> "setup_error"

\* The host sets up entry e (first setup, scheduled retry or reload).
AsyncSetupEntry(e, mapRes, devRes, cfgRes, firstRes, propsRes) ==
    LET end == SetupOutcome(entry_conn[e], entry_map[e], mapRes, devRes,
                            cfgRes, firstRes, propsRes)
        registers == end.result = "True" /\ ~service_registered
    IN  /\ entry_state[e] # "loaded"
        /\ registry' = IF end.wrote
                       THEN Put(registry, EntryData(e, entry_conn[e]))
                       ELSE registry
        /\ service_registered' = (service_registered \/ registers)
        /\ entry_state' = [entry_state EXCEPT ![e] = HostState(end.result)]
        /\ last_setup' = [entry |-> e, stage |-> end.stage,
                          result |-> end.result, wrote |-> end.wrote,
                          registered |-> registers]
        /\ UNCHANGED <<entry_conn, entry_map, last_brew>>
        /\ UNCHANGED pollVars
        /\ UNCHANGED platVars

SetupEntry ==
    \E e \in Entries, mapRes \in CallOutcomes, devRes \in DeviceOutcomes,
       cfgRes \in CallOutcomes, firstRes \in CallOutcomes,
       propsRes \in CallOutcomes :
        AsyncSetupEntry(e, mapRes, devRes, cfgRes, firstRes, propsRes)

(***************************************************************************)
(* The brew service: handle_brew                                           *)
(***************************************************************************)
\* optional keys of BREW_SCHEMA a call may carry (two of the eight)
BrewKeys == {"coffee_ml", "milk_ml"}
BrewValues == {40}
Beverages == {"espresso", "latte"}
\* call.data: the beverage and a mapping of the optional keys that are set
BrewCalls ==
    {[beverage |-> b, params |-> f] :
        b \in Beverages,
        f \in UNION {[K -> BrewValues] : K \in SUBSET BrewKeys}}

\* params or None
OrNone(params) == [none |-> (DOMAIN params = {}), params |-> params]

\* What handle_brew does for a call: the brew_custom calls it makes, the
\* refreshes it requests and the error it ends with. The loop over BREW_PARAMS
\* comes first; the registry is walked in insertion order up to the first
\* record that holds a device.
HandleBrew(call, reg) ==
    IF ~NameDefined("BREW_PARAMS")
    THEN [calls |-> <<>>, refreshes |-> <<>>, error |-> "NameError"]
    ELSE IF reg = <<>>
    THEN [calls |-> <<>>, refreshes |-> <<>>, error |-> "none"]
    ELSE [calls |-> <<[device |-> reg[1].device, beverage |-> call.beverage,
                       arg |-> OrNone(call.params)]>>,
          refreshes |-> <<reg[1].coordinator>>,
          error |-> "none"]

\* A brew service call reaches the host: the handler runs if the service is
\* registered, otherwise the host answers ServiceNotFound.
BrewServiceCall(call) ==
    LET done == IF service_registered
                THEN HandleBrew(call, registry)
                ELSE [calls |-> <<>>, refreshes |-> <<>>,
                      error |-> "ServiceNotFound"]
    IN  /\ last_brew' = [issued |-> TRUE, call |-> call, registry |-> registry,
                         calls |-> done.calls, refreshes |-> done.refreshes,
                         error |-> done.error]
        /\ UNCHANGED <<entry_conn, entry_map, entry_state, registry,
                       service_registered, last_setup>>
        /\ UNCHANGED pollVars
        /\ UNCHANGED platVars

BrewService == \E call \in BrewCalls : BrewServiceCall(call)

(***************************************************************************)
(* CremalinkButton.extra_state_attributes (button.py)                      *)
(***************************************************************************)
\* recipes a properties snapshot may list for the button to choose from
MaxRecipes == 3
\* recipe.named_params, a dict, as the set of its items
NamedParams == {{}, {<<"coffee", 40>>}, {<<"coffee", 60>>}}
BevIds == {1, 2}
RecipeProfiles == {1, 2}
\* a recipe with the parameters the button shows
RecipeOf(b, p, n) == [bev_id |-> b, profile |-> p, named_params |-> n]
ButtonRecipes ==
    {RecipeOf(b, p, n) : b \in BevIds, p \in RecipeProfiles, n \in NamedParams}
RecipeLists ==
    UNION {[1..k -> ButtonRecipes] : k \in 0..MaxRecipes}
\* _CATALOG.get_by_name found no beverage of the button's name
NoBev == 0
\* the property returns None
AttrsNone == [none |-> TRUE, attrs |-> {}]
Attrs(n) == [none |-> FALSE, attrs |-> n]
\* extra_state_attributes was not read yet
NotRead == [read |-> FALSE, result |-> AttrsNone]

\* (variant: the first recipe of the beverage is taken whatever its profile)
FindMatch_FirstOfBeverage(recipes, bev) ==
    LET ids == {i \in 1..Len(recipes) : recipes[i].bev_id = bev}
    IN  IF ids = {} THEN 0 ELSE CHOOSE i \in ids : \A j \in ids : i <= j

\* The for loop over the recipes from position i on, match being the index
\* of the recipe held so far (0 for None): a profile-1 recipe of the beverage
\* ends the loop, another recipe of the beverage is kept if none was.
RECURSIVE MatchLoop(_, _, _, _)
MatchLoop(recipes, bev, i, match) ==
    IF i > Len(recipes) THEN match
    ELSE IF recipes[i].bev_id = bev
         THEN IF recipes[i].profile = 1
              THEN i
              ELSE MatchLoop(recipes, bev, i + 1,
                             IF match = 0 THEN i ELSE match)
         ELSE MatchLoop(recipes, bev, i + 1, match)

\* index of the recipe the loop leaves in match, 0 for None
FindMatch(recipes, bev) == MatchLoop(recipes, bev, 1, 0)

\* extra_state_attributes of a button whose command names beverage bev (NoBev
\* if the catalog does not know it), props being the properties
\* coordinator's data (absent also stands for a button without coordinator)
ExtraStateAttributes(props, bev) ==
    IF ~props.present THEN AttrsNone
    ELSE IF bev = NoBev THEN AttrsNone
    ELSE LET match == FindMatch(props.recipes, bev)
         IN  IF match = 0 \/ props.recipes[match].named_params = {}
             THEN AttrsNone
             ELSE Attrs(props.recipes[match].named_params)

\* The host reads the button's extra attributes.
ReadAttributes ==
    /\ btn_attrs' = [read |-> TRUE,
                     result |-> ExtraStateAttributes(props_data, btn_bev)]
    /\ UNCHANGED btn_bev
    /\ UNCHANGED <<pollVars, entryVars, selectVars, buttonVars, atomicVars, sensorVars>>

RecipesIdle ==
    /\ btn_bev = NoBev
    /\ btn_attrs = NotRead

\* a button over any properties data within the bounds
RecipesInit ==
    /\ btn_bev \in BevIds \cup {NoBev}
    /\ btn_attrs = NotRead
    /\ props_data \in {NoProps} \cup
          {[present |-> TRUE, counters |-> [espresso |-> 3, latte |-> 0],
            profile_names |-> <<"Anna", "Ben">>, recipes |-> r] :
           r \in RecipeLists}

(***************************************************************************)
(* CremalinkButton.async_press (button.py)                                 *)
(***************************************************************************)
\* a device call carries no profile
NoProfile == 0
\* what a press does, in order: the device call, the refresh request
DoCall(cmd, res) ==
    [ev |-> "do", cmd |-> cmd, profile |-> NoProfile, res |-> res]
RequestRefresh(cmd) ==
    [ev |-> "request_refresh", cmd |-> cmd, profile |-> NoProfile,
     res |-> "ok"]
NoPress == [pressed |-> FALSE, cmd |-> "none", events |-> <<>>]

\* (variant: the refresh is requested also when the device call raised)
PressEvents_AlwaysRefresh(cmd, doRes) ==
    <<DoCall(cmd, doRes), RequestRefresh(cmd)>>

\* await executor(self.device.do, self._cmd), whose exception ends the press,
\* then await self.coordinator.async_request_refresh()
PressEvents(cmd, doRes) ==
    IF doRes = "raise"
    THEN <<DoCall(cmd, doRes)>>
    ELSE <<DoCall(cmd, doRes), RequestRefresh(cmd)>>

\* The button of command cmd is pressed; doRes is what device.do does.
AsyncPress(cmd, doRes) ==
    /\ last_press' = [pressed |-> TRUE, cmd |-> cmd,
                      events |-> PressEvents(cmd, doRes)]
    /\ UNCHANGED <<device_cmds, btn_setup, buttons>>
    /\ UNCHANGED <<pollVars, entryVars, recipeVars, selectVars, atomicVars, sensorVars>>

Press ==
    \E i \in 1..Len(buttons), doRes \in CallOutcomes :
        AsyncPress(buttons[i], doRes)

(***************************************************************************)
(* button.async_setup_entry and CremalinkButton.available (button.py)      *)
(***************************************************************************)
\* commands a device may list
MaxCommands == 3
Commands == {"wakeup", "Standby", "refresh", "stop", "espresso"}
\* get_commands(): a list of distinct commands
CommandLists ==
    {l \in UNION {[1..k -> Commands] : k \in 0..MaxCommands} :
        \A i, j \in 1..Len(l) : l[i] = l[j] => i = j}

\* cmd.lower()
Lower(cmd) == IF cmd = "Standby" THEN "standby" ELSE cmd

\* (variant: only the power commands get no button)
Filtered_PowerOnly == {"wakeup", "standby"}

\* the commands that get no button
Filtered == {"wakeup", "standby", "refresh"}

\* for cmd in cmds: if cmd.lower() not in [...]: entities.append(...)
RECURSIVE ButtonsFor(_, _)
ButtonsFor(cmds, i) ==
    IF i > Len(cmds) THEN <<>>
    ELSE (IF Lower(cmds[i]) \notin Filtered THEN <<cmds[i]>> ELSE <<>>)
         \o ButtonsFor(cmds, i + 1)

\* button.async_setup_entry; res is what device.get_commands does
ButtonSetupEntry(res) ==
    /\ btn_setup = "none"
    /\ btn_setup' = IF res = "raise" THEN "failed" ELSE "done"
    /\ buttons' = IF res = "raise" THEN <<>> ELSE ButtonsFor(device_cmds, 1)
    /\ UNCHANGED <<device_cmds, last_press>>
    /\ UNCHANGED <<pollVars, entryVars, recipeVars, selectVars, atomicVars, sensorVars>>

ButtonSetup == \E res \in CallOutcomes : ButtonSetupEntry(res)

\* a status snapshot with the is_busy attribute the buttons read
BusySnapshot(st, busy) == [present |-> TRUE, status |-> st, is_busy |-> busy]
BusyMonitorOutcomes ==
    {Raise, Return(NoData)} \cup
    {Return(BusySnapshot(st, b)) : st \in Statuses, b \in BOOLEAN}

\* a poll of the fast coordinator of a local device
BusyPoll == \E m \in BusyMonitorOutcomes : AsyncUpdateData("true", m)

\* (variant: the outcome of the last poll is not looked at)
Available_IgnoresPoll(cmd, ok, snapshot) ==
    IF Lower(cmd) = "stop"
    THEN (IF snapshot.is_busy THEN "true" ELSE "false")
    ELSE (IF snapshot.is_busy THEN "false" ELSE "true")

\* CremalinkButton.available of the button of cmd: ok is super().available,
\* the coordinator's last_update_success, and snapshot is coordinator.data,
\* whose is_busy cannot be read while it is None
Available(cmd, ok, snapshot) ==
    IF ~ok THEN "false"
    ELSE IF ~snapshot.present THEN "AttributeError"
    ELSE IF Lower(cmd) = "stop"
         THEN (IF snapshot.is_busy THEN "true" ELSE "false")
         ELSE (IF snapshot.is_busy THEN "false" ELSE "true")

ButtonAvailable(cmd) == Available(cmd, last_update_success, data)

ButtonsIdle ==
    /\ device_cmds = <<>>
    /\ btn_setup = "none"
    /\ buttons = <<>>
    /\ last_press = NoPress

\* the button platform about to be set up over any list of commands
ButtonsInit ==
    /\ device_cmds \in CommandLists
    /\ btn_setup = "none"
    /\ buttons = <<>>
    /\ last_press = NoPress

(***************************************************************************)
(* The profile selector (select.py)                                        *)
(***************************************************************************)
\* range(1, 5)
ProfileNumbers == 1..4
ProfileNameStrings == {"Anna", "Ben"}
\* the profiles a device names
ProfileKeySets == {{}, {1}, {2}, {1, 2}, {2, 4}}
\* get_profile_names(): profile number -> name
ProfileNameDicts == UNION {[K -> ProfileNameStrings] : K \in ProfileKeySets}
\* a properties snapshot with the profile names n
NamesSnapshot(n) ==
    [counters |-> [espresso |-> 3, latte |-> 0], profile_names |-> n,
     recipes |-> <<>>]
NamesOutcomes == {[res |-> "raise", val |-> 0]} \cup
                 {[res |-> "ok", val |-> NamesSnapshot(n)] :
                    n \in ProfileNameDicts}
\* async_get_last_state(): None, or a state whose string may be empty
NoLastState == [present |-> FALSE, state |-> ""]
LastState(s) == [present |-> TRUE, state |-> s]
LastStates == {NoLastState} \cup {LastState(s) : s \in {"", "Ben", "Dora"}}
\* the options a select call may name
OptionInputs == ProfileNameStrings \cup {"Dora"}
NoSelect == [done |-> FALSE, option |-> "none"]
\* the entry whose selector is followed
SelectEntry == "e1"

\* f"Profile {n}"
ProfileLabel(n) ==
    CASE n = 1 -> "Profile 1"
      [] n = 2 -> "Profile 2"
      [] n = 3 -> "Profile 3"
      [] OTHER -> "Profile 4"

\* for num, name in names.items(): if name == s: num, break; the numbers
\* left to visit are keys, cur is kept if no name matches
RECURSIVE ItemsLoop(_, _, _, _)
ItemsLoop(names, keys, s, cur) ==
    IF keys = {} THEN cur
    ELSE LET num == CHOOSE k \in keys : \A j \in keys : k <= j
         IN  IF names[num] = s THEN num
             ELSE ItemsLoop(names, keys \ {num}, s, cur)

\* (variant: the persisted state is not looked at)
Restore_KeepsDefault(names, last, cur) == cur

\* the profile async_added_to_hass selects
Restore(names, last, cur) ==
    IF last.present /\ last.state # ""
    THEN ItemsLoop(names, DOMAIN names, last.state, cur)
    ELSE cur

\* the mapping options, current_option and async_select_option look at
NamesInUse(props, own) ==
    IF props.present /\ DOMAIN props.profile_names # {}
    THEN props.profile_names
    ELSE own

\* [names.get(i, f"Profile {i}") for i in range(1, 5) if i in names]
RECURSIVE OptionsFrom(_, _)
OptionsFrom(names, i) ==
    IF i \notin ProfileNumbers THEN <<>>
    ELSE (IF i \in DOMAIN names THEN <<names[i]>> ELSE <<>>)
         \o OptionsFrom(names, i + 1)

Options == OptionsFrom(NamesInUse(props_data, sel_profile_names), 1)

\* names.get(self._selected_profile, f"Profile {self._selected_profile}")
CurrentOption ==
    LET names == NamesInUse(props_data, sel_profile_names)
    IN  IF sel_selected \in DOMAIN names
        THEN names[sel_selected]
        ELSE ProfileLabel(sel_selected)

\* hass.data[DOMAIN][entry_id]["selected_profile"] = n
SetSelected(reg, e, n) ==
    [i \in 1..Len(reg) |->
        IF reg[i].entry_id = e
        THEN [reg[i] EXCEPT !.selected_profile = n]
        ELSE reg[i]]

RegistryRecord(reg, e) ==
    reg[CHOOSE i \in 1..Len(reg) : reg[i].entry_id = e]

\* select.async_setup_entry: the selector is created if the entry has a
\* properties coordinator whose data names a profile
SelectSetupEntry ==
    LET rec == RegistryRecord(registry, SelectEntry)
        creates == /\ rec.properties_coordinator
                   /\ props_data.present
                   /\ DOMAIN props_data.profile_names # {}
    IN  /\ sel_state = "none"
        /\ sel_state' = IF creates THEN "created" ELSE "skipped"
        /\ sel_profile_names' =
              IF creates THEN props_data.profile_names ELSE sel_profile_names
        /\ sel_selected' = 1
        /\ UNCHANGED <<persisted, last_select>>
        /\ UNCHANGED <<pollVars, entryVars, recipeVars, buttonVars, atomicVars, sensorVars>>

\* CremalinkProfileSelect.async_added_to_hass
AsyncAddedToHass ==
    LET sel == Restore(sel_profile_names, persisted, sel_selected)
    IN  /\ sel_state = "created"
        /\ sel_state' = "added"
        /\ sel_selected' = sel
        /\ registry' = SetSelected(registry, SelectEntry, sel)
        /\ UNCHANGED <<sel_profile_names, persisted, last_select>>
        /\ UNCHANGED <<entry_conn, entry_map, entry_state,
                       service_registered, last_setup, last_brew>>
        /\ UNCHANGED <<pollVars, recipeVars, buttonVars, atomicVars, sensorVars>>

\* CremalinkProfileSelect.async_select_option(option)
AsyncSelectOption(option) ==
    LET names == NamesInUse(props_data, sel_profile_names)
        sel == ItemsLoop(names, DOMAIN names, option, sel_selected)
    IN  /\ sel_state = "added"
        /\ sel_selected' = sel
        /\ registry' = SetSelected(registry, SelectEntry, sel)
        /\ last_select' = [done |-> TRUE, option |-> option]
        /\ UNCHANGED <<sel_state, sel_profile_names, persisted>>
        /\ UNCHANGED <<entry_conn, entry_map, entry_state,
                       service_registered, last_setup, last_brew>>
        /\ UNCHANGED <<pollVars, recipeVars, buttonVars, atomicVars, sensorVars>>

SelectOption == \E option \in OptionInputs : AsyncSelectOption(option)

\* a poll of the properties coordinator that may bring other profile names
NamesPoll == \E p \in NamesOutcomes : AsyncUpdateProperties(p)

SelectIdle ==
    /\ sel_state = "none"
    /\ sel_profile_names = <<>>
    /\ sel_selected = 1
    /\ persisted = NoLastState
    /\ last_select = NoSelect

\* the selector's platform about to be set up for an entry in the registry
SelectInit ==
    /\ sel_state = "none"
    /\ sel_profile_names = <<>>
    /\ sel_selected = 1
    /\ persisted \in LastStates
    /\ last_select = NoSelect
    /\ device_cmds = <<"espresso", "stop">>
    /\ btn_setup = "done"
    /\ buttons = <<"espresso", "stop">>
    /\ last_press = NoPress

(***************************************************************************)
(* The polls of the two coordinators, one await at a time                  *)
(***************************************************************************)
\* what the polls followed step by step leave alone
pollHistory == <<connection_type, now, calls, outcome, props_outcome,
                 last_status, prev_interval, side_ok_at, activation_returned,
                 side_failures>>

\* (variant: the cached record is the one under construction)
DataAfter_InPlace(cur, local, returned) == local

\* self.data = await self._async_update_data(): the host replaces the cached
\* value by what the poll returned, and not before it returned
DataAfter(cur, local, returned) == IF returned THEN local ELSE cur

\* the fast poll is scheduled
FastBegin ==
    /\ pc_fast = "idle"
    /\ pc_fast' = "ensure"
    /\ data' = DataAfter(data, fast_local, FALSE)
    /\ UNCHANGED <<app_id_activated, last_app_id_refresh, update_interval,
                   last_update_success, props_data,
                   props_last_update_success, pollHistory>>
    /\ UNCHANGED <<fast_local, pc_props, props_snapshot, props_local,
                   seen_fast, seen_props>>
    /\ UNCHANGED <<entryVars, recipeVars, selectVars, buttonVars, sensorVars>>

\* await self._async_ensure_app_connection() comes back
FastEnsured(o) ==
    LET ens == EnsureAppConnection(o)
    IN  /\ pc_fast = "ensure"
        /\ pc_fast' = "read"
        /\ app_id_activated' = ens.activated
        /\ last_app_id_refresh' = ens.last
        /\ data' = DataAfter(data, fast_local, FALSE)
        /\ UNCHANGED <<update_interval, last_update_success, props_data,
                       props_last_update_success, pollHistory>>
        /\ UNCHANGED <<fast_local, pc_props, props_snapshot, props_local,
                       seen_fast, seen_props>>
        /\ UNCHANGED <<entryVars, recipeVars, selectVars, buttonVars, sensorVars>>

\* await executor(self.device.get_monitor) comes back with m: the interval
\* is set and the poll is about to return, or UpdateFailed ends it
FastRead(m) ==
    /\ pc_fast = "read"
    /\ pc_fast' = IF m.res = "raise" THEN "idle" ELSE "return"
    /\ fast_local' = IF m.res = "raise" THEN fast_local ELSE m.val
    /\ update_interval' =
          IF m.res = "raise" THEN update_interval
          ELSE NextInterval(m.val, update_interval)
    /\ last_update_success' =
          IF m.res = "raise" THEN FALSE ELSE last_update_success
    /\ data' = DataAfter(data, fast_local', FALSE)
    /\ UNCHANGED <<app_id_activated, last_app_id_refresh, props_data,
                   props_last_update_success, pollHistory>>
    /\ UNCHANGED <<pc_props, props_snapshot, props_local, seen_fast,
                   seen_props>>
    /\ UNCHANGED <<entryVars, recipeVars, selectVars, buttonVars, sensorVars>>

\* the poll has returned data and the host stores it
FastReturn ==
    /\ pc_fast = "return"
    /\ pc_fast' = "idle"
    /\ data' = DataAfter(data, fast_local, TRUE)
    /\ last_update_success' = TRUE
    /\ UNCHANGED <<app_id_activated, last_app_id_refresh, update_interval,
                   props_data, props_last_update_success, pollHistory>>
    /\ UNCHANGED <<fast_local, pc_props, props_snapshot, props_local,
                   seen_fast, seen_props>>
    /\ UNCHANGED <<entryVars, recipeVars, selectVars, buttonVars, sensorVars>>

\* the order in which PropertiesData(...) evaluates its arguments
BuildSteps == <<"counters", "profile_names", "recipes">>
StepAfter(pc) ==
    CASE pc = "counters" -> "profile_names"
      [] pc = "profile_names" -> "recipes"
      [] OTHER -> "built"
\* the record under construction with the field of step pc read from snap
WithField(rec, pc, snap) ==
    CASE pc = "counters" -> [rec EXCEPT !.counters = snap.counters]
      [] pc = "profile_names" ->
            [rec EXCEPT !.profile_names = snap.profile_names]
      [] OTHER -> [rec EXCEPT !.recipes = snap.recipes, !.present = TRUE]
\* the local snapshot before get_properties has returned one
NoSnapshot == [counters |-> [espresso |-> 0, latte |-> 0],
               profile_names |-> <<>>, recipes |-> <<>>]

\* the properties poll is scheduled
PropsBegin ==
    /\ pc_props = "idle"
    /\ pc_props' = "fetch"
    /\ props_local' = NoProps
    /\ props_data' = DataAfter(props_data, props_local', FALSE)
    /\ UNCHANGED <<app_id_activated, last_app_id_refresh, update_interval,
                   data, last_update_success, props_last_update_success,
                   pollHistory>>
    /\ UNCHANGED <<pc_fast, fast_local, props_snapshot, seen_fast,
                   seen_props>>
    /\ UNCHANGED <<entryVars, recipeVars, selectVars, buttonVars, sensorVars>>

\* await executor(self.device.get_properties) comes back with p
PropsFetched(p) ==
    /\ pc_props = "fetch"
    /\ pc_props' = IF p.res = "raise" THEN "idle" ELSE BuildSteps[1]
    /\ props_snapshot' = IF p.res = "raise" THEN props_snapshot ELSE p.val
    /\ props_last_update_success' =
          IF p.res = "raise" THEN FALSE ELSE props_last_update_success
    /\ props_data' = DataAfter(props_data, props_local, FALSE)
    /\ UNCHANGED <<app_id_activated, last_app_id_refresh, update_interval,
                   data, last_update_success, pollHistory>>
    /\ UNCHANGED <<pc_fast, fast_local, props_local, seen_fast, seen_props>>
    /\ UNCHANGED <<entryVars, recipeVars, selectVars, buttonVars, sensorVars>>

\* one argument of PropertiesData(...) is evaluated: the getter returns, or
\* it raises and UpdateFailed ends the poll
PropsBuild(res) ==
    /\ pc_props \in {"counters", "profile_names", "recipes"}
    /\ pc_props' = IF res = "raise" THEN "idle" ELSE StepAfter(pc_props)
    /\ props_local' = IF res = "raise" THEN props_local
                      ELSE WithField(props_local, pc_props, props_snapshot)
    /\ props_last_update_success' =
          IF res = "raise" THEN FALSE ELSE props_last_update_success
    /\ props_data' = DataAfter(props_data, props_local', FALSE)
    /\ UNCHANGED <<app_id_activated, last_app_id_refresh, update_interval,
                   data, last_update_success, pollHistory>>
    /\ UNCHANGED <<pc_fast, fast_local, props_snapshot, seen_fast,
                   seen_props>>
    /\ UNCHANGED <<entryVars, recipeVars, selectVars, buttonVars, sensorVars>>

\* the poll has returned the record and the host stores it
PropsReturn ==
    /\ pc_props = "built"
    /\ pc_props' = "idle"
    /\ props_data' = DataAfter(props_data, props_local, TRUE)
    /\ props_last_update_success' = TRUE
    /\ UNCHANGED <<app_id_activated, last_app_id_refresh, update_interval,
                   data, last_update_success, pollHistory>>
    /\ UNCHANGED <<pc_fast, fast_local, props_snapshot, props_local,
                   seen_fast, seen_props>>
    /\ UNCHANGED <<entryVars, recipeVars, selectVars, buttonVars, sensorVars>>

\* an entity reads the data of both coordinators
ReadData ==
    /\ seen_fast' = data
    /\ seen_props' = props_data
    /\ UNCHANGED <<pc_fast, fast_local, pc_props, props_snapshot,
                   props_local>>
    /\ UNCHANGED <<pollVars, entryVars, recipeVars, selectVars, buttonVars, sensorVars>>

FastSteps ==
    \/ FastBegin
    \/ \E o \in SideOutcomes : FastEnsured(o)
    \/ \E m \in MonitorOutcomes : FastRead(m)
    \/ FastReturn

PropsSteps ==
    \/ PropsBegin
    \/ \E p \in PropertiesOutcomes : PropsFetched(p)
    \/ \E res \in CallOutcomes : PropsBuild(res)
    \/ PropsReturn

AtomicIdle ==
    /\ pc_fast = "idle"
    /\ fast_local = NoData
    /\ pc_props = "idle"
    /\ props_snapshot = NoSnapshot
    /\ props_local = NoProps
    /\ seen_fast = NoData
    /\ seen_props = NoProps

(***************************************************************************)
(* sensor.async_setup_entry (sensor.py)                                    *)
(***************************************************************************)
\* the highest count a beverage's counter shows
MaxCount == 2
CountedBeverages == {"espresso", "latte"}
\* get_counters(): beverage -> count
CounterDicts == [CountedBeverages -> 0..MaxCount]
CounterSnapshot(c) ==
    [counters |-> c, profile_names |-> <<"Anna", "Ben">>, recipes |-> <<>>]
CounterOutcomes == {[res |-> "raise", val |-> 0]} \cup
                   {[res |-> "ok", val |-> CounterSnapshot(c)] :
                      c \in CounterDicts}

\* the attributes a PropertiesData has
PropertiesFields == (DOMAIN PropertiesData(NoSnapshot)) \ {"present"}
\* the attributes of props the setup reads, in the order it reads them
SetupReads ==
    <<"counters", "aggregate_counters", "profile_names", "maintenance",
      "machine_settings", "active_profile", "json_counters",
      "service_parameters", "bean_system", "serial_number",
      "software_version">>
\* the attributes of coordinator.data the sensors read when rendering
RenderReads ==
    {"counters", "profile_names", "favorites", "recipe_priority",
     "aggregate_counters", "maintenance", "machine_settings",
     "active_profile", "json_counters", "service_parameters", "bean_system",
     "serial_number", "software_version"}

Sensor(kind, key) == [kind |-> kind, key |-> key]
\* SENSORS
BaseSensors ==
    {Sensor("status", k) :
       k \in {"status_name", "progress_percent", "accessory_name"}}
\* for bev_name, count in props.counters.items(): if count > 0
CounterSensors(counters) ==
    {Sensor("counter", b) : b \in {x \in DOMAIN counters : counters[x] > 0}}
\* the sensors of the groups after the counters, one standing for each group
LaterSensors ==
    {Sensor(g, "any") :
       g \in {"aggregate", "profile", "maintenance", "setting",
              "active_profile", "json_counter", "service_param", "bean",
              "diagnostic"}}

\* position of the first attribute read that the record does not have, 0 if
\* it has them all
RECURSIVE FirstMissing(_, _, _)
FirstMissing(reads, fields, i) ==
    IF i > Len(reads) THEN 0
    ELSE IF reads[i] \notin fields THEN i
    ELSE FirstMissing(reads, fields, i + 1)

\* sensor.async_setup_entry: an attribute the record lacks raises
\* AttributeError before async_add_entities is reached
SensorSetupEntry ==
    LET rec == RegistryRecord(registry, SelectEntry)
        hasProps == rec.properties_coordinator /\ props_data.present
        missing == FirstMissing(SetupReads, PropertiesFields, 1)
    IN  /\ sensor_setup = "none"
        /\ sensor_setup' =
              IF ~hasProps THEN "base"
              ELSE IF missing # 0 THEN "AttributeError"
              ELSE "done"
        /\ sensors' =
              IF ~hasProps THEN BaseSensors
              ELSE IF missing # 0 THEN {}
              ELSE BaseSensors \cup CounterSensors(props_data.counters)
                   \cup LaterSensors
        /\ setup_counters' =
              IF hasProps THEN props_data.counters ELSE setup_counters
        /\ UNCHANGED <<pollVars, entryVars, recipeVars, selectVars,
                       buttonVars, atomicVars>>

\* a poll of the properties coordinator that may bring other counters
CounterPoll == \E p \in CounterOutcomes : AsyncUpdateProperties(p)

SensorsIdle ==
    /\ sensor_setup = "none"
    /\ sensors = {}
    /\ setup_counters = NoSnapshot.counters

\* no platform is being looked at
PlatIdle ==
    RecipesIdle /\ SelectIdle /\ ButtonsIdle /\ AtomicIdle /\ SensorsIdle

(***************************************************************************)
(* async_unload_entry                                                      *)
(***************************************************************************)
\* what async_unload_platforms returns
UnloadOutcomes == {"true", "false"}

\* hass.data[DOMAIN].pop(entry_id)
Pop(reg, e) == SelectSeq(reg, LAMBDA rec : rec.entry_id # e)

\* the registry after async_unload_entry of entry e
UnloadedRegistry(reg, e, unload_ok) ==
    IF unload_ok = "true" THEN Pop(reg, e) ELSE reg

\* The host unloads entry e. It calls async_unload_entry only for a loaded
\* entry, which is unloaded if that returns True; an entry whose setup
\* failed or awaits a retry is set back to not loaded without the call.
AsyncUnloadEntry(e, unload_ok) ==
    /\ entry_state[e] \in {"loaded", "setup_error", "setup_retry"}
    /\ registry' = IF entry_state[e] = "loaded"
                   THEN UnloadedRegistry(registry, e, unload_ok)
                   ELSE registry
    /\ entry_state' =
          [entry_state EXCEPT ![e] =
              IF entry_state[e] = "loaded" /\ unload_ok # "true"
              THEN "failed_unload" ELSE "not_loaded"]
    /\ UNCHANGED <<entry_conn, entry_map, service_registered, last_setup,
                   last_brew>>
    /\ UNCHANGED pollVars
    /\ UNCHANGED platVars

UnloadEntry ==
    \E e \in Entries, unload_ok \in UnloadOutcomes :
        AsyncUnloadEntry(e, unload_ok)

(***************************************************************************)
(* Specifications                                                          *)
(***************************************************************************)
vars == <<pollVars, entryVars, platVars>>

NoSetup == [entry |-> "none", stage |-> "none", result |-> "none",
            wrote |-> FALSE, registered |-> FALSE]
NoBrew == [issued |-> FALSE, call |-> [beverage |-> "none", params |-> <<>>],
           registry |-> <<>>, calls |-> <<>>, refreshes |-> <<>>,
           error |-> "none"]

\* no entry is being looked at: the coordinators are followed on their own
EntryIdle ==
    /\ entry_conn = [e \in Entries |-> CONNECTION_LOCAL]
    /\ entry_map = [e \in Entries |-> "builtin"]
    /\ entry_state = [e \in Entries |-> "not_loaded"]
    /\ registry = <<>>
    /\ service_registered = FALSE
    /\ last_setup = NoSetup
    /\ last_brew = NoBrew

EntryInit ==
    /\ entry_conn \in [Entries -> ConnectionTypes]
    /\ entry_map = EntryMaps
    /\ entry_state = [e \in Entries |-> "not_loaded"]
    /\ registry = <<>>
    /\ service_registered = FALSE
    /\ last_setup = NoSetup
    /\ last_brew = NoBrew

Init == PollInit /\ EntryIdle /\ PlatIdle

Next == FastPoll \/ PropertiesPoll \/ Tick

Spec == Init /\ [][Next]_vars

\* the host setting up entries and serving brew calls
InitEntry ==
    PollInit /\ connection_type = CONNECTION_LOCAL /\ EntryInit /\ PlatIdle

NextEntry == SetupEntry \/ BrewService

SpecEntry == InitEntry /\ [][NextEntry]_vars

\* PollInit but for the properties data it fixes
PollRest ==
    /\ now = 0
    /\ app_id_activated = FALSE
    /\ last_app_id_refresh = 0
    /\ update_interval = SCAN_INTERVAL_FAST
    /\ data = NoData
    /\ last_update_success = TRUE
    /\ props_last_update_success = TRUE
    /\ calls = <<>>
    /\ outcome = "none"
    /\ props_outcome = "none"
    /\ last_status = NoStatus
    /\ prev_interval = SCAN_INTERVAL_FAST
    /\ side_ok_at = -1
    /\ activation_returned = FALSE
    /\ side_failures = 0

\* a button's extra attributes read over any list of recipes
InitRecipes ==
    /\ PollRest /\ connection_type = CONNECTION_CLOUD
    /\ EntryIdle
    /\ RecipesInit
    /\ SelectIdle /\ ButtonsIdle /\ AtomicIdle /\ SensorsIdle

NextRecipes == ReadAttributes

SpecRecipes == InitRecipes /\ [][NextRecipes]_vars

\* the profile selector of an entry whose record is in the registry, with
\* the properties coordinator polled and buttons pressed at any time
InitSelect ==
    /\ PollRest
    /\ props_data = NoProps
    /\ connection_type \in {CONNECTION_LOCAL, CONNECTION_CLOUD}
    /\ entry_conn = [e \in Entries |-> connection_type]
    /\ entry_map = [e \in Entries |-> "builtin"]
    /\ entry_state = [e \in Entries |-> "not_loaded"]
    /\ registry = <<EntryData(SelectEntry, connection_type)>>
    /\ service_registered = FALSE
    /\ last_setup = NoSetup
    /\ last_brew = NoBrew
    /\ RecipesIdle /\ AtomicIdle /\ SensorsIdle
    /\ SelectInit

NextSelect ==
    \/ NamesPoll
    \/ SelectSetupEntry
    \/ AsyncAddedToHass
    \/ SelectOption
    \/ Press

SpecSelect == InitSelect /\ [][NextSelect]_vars

\* the button platform of a local device: its setup, the presses of its
\* buttons and the polls of the fast coordinator
InitButton ==
    /\ PollRest
    /\ props_data = NoProps
    /\ connection_type = CONNECTION_LOCAL
    /\ EntryIdle
    /\ RecipesIdle /\ SelectIdle /\ AtomicIdle /\ SensorsIdle
    /\ ButtonsInit

NextButton == ButtonSetup \/ Press \/ BusyPoll

SpecButton == InitButton /\ [][NextButton]_vars

\* the two coordinators of a cloud device polling await by await while
\* entities read their data
InitAtomic ==
    /\ PollInit /\ connection_type = CONNECTION_CLOUD
    /\ EntryIdle
    /\ PlatIdle

NextAtomic == FastSteps \/ PropsSteps \/ ReadData

SpecAtomic == InitAtomic /\ [][NextAtomic]_vars

\* the sensor platform of an entry whose record is in the registry, set up
\* at any time between the polls of the properties coordinator
InitSensor ==
    /\ PollInit
    /\ entry_conn = [e \in Entries |-> connection_type]
    /\ entry_map = [e \in Entries |-> "builtin"]
    /\ entry_state = [e \in Entries |-> "not_loaded"]
    /\ registry = <<EntryData(SelectEntry, connection_type)>>
    /\ service_registered = FALSE
    /\ last_setup = NoSetup
    /\ last_brew = NoBrew
    /\ PlatIdle

NextSensor == CounterPoll \/ SensorSetupEntry

SpecSensor == InitSensor /\ [][NextSensor]_vars

\* the host setting up and unloading entries
NextLifecycle == SetupEntry \/ UnloadEntry

SpecLifecycle == InitEntry /\ [][NextLifecycle]_vars

(***************************************************************************)
(* CremalinkSensor.available (sensor.py)                                   *)
(***************************************************************************)
\* (variant: a cached snapshot alone makes the sensor available)
SensorAvailable_DataOnly == data.present

\* not self.coordinator.data -> False; otherwise CoordinatorEntity.available,
\* which is the coordinator's last_update_success
SensorAvailable == data.present /\ last_update_success

(***************************************************************************)
(* Properties of the coordinators, checked under Spec                      *)
(***************************************************************************)
SideCallNames == {"activate_app_connection", "_refresh_app_id"}
Called(cs, n) == \E i \in 1..Len(cs) : cs[i].name = n
CalledWith(cs, n, r) == \E i \in 1..Len(cs) : cs[i] = Call(n, r)
SideCallsIn(cs) == {i \in 1..Len(cs) : cs[i].name \in SideCallNames}
SideRaisedIn(cs) == \E i \in SideCallsIn(cs) : cs[i].res = "raise"

\* C1: in every poll cycle of either coordinator whose device read
\* (get_monitor / get_properties) raises, the cached snapshot is the same
\* after the cycle as before it and the cycle ends as UpdateFailed, with the
\* coordinator marked as having failed its update.
C1_FailedReadKeepsSnapshot ==
    [][ /\ \A o \in SideOutcomes, m \in MonitorOutcomes :
             (AsyncUpdateData(o, m) /\ m.res = "raise")
             => (data' = data /\ outcome' = "UpdateFailed"
                 /\ ~last_update_success')
        /\ \A p \in PropertiesOutcomes :
             (AsyncUpdateProperties(p) /\ p.res = "raise")
             => (props_data' = props_data /\ props_outcome' = "UpdateFailed"
                 /\ ~props_last_update_success') ]_vars

\* a fast cycle failed on its read while a snapshot was cached, and a
\* properties cycle failed while a record was cached
C1_Witness ==
    /\ outcome = "UpdateFailed" /\ CalledWith(calls, "get_monitor", "raise")
    /\ data.present
    /\ props_outcome = "UpdateFailed" /\ props_data.present

\* C2: the fast poll interval is 30 s when the last observed status is
\* standby (0) and 1 s when it is any other status or none was observed yet;
\* a non-standby read after a standby read brings it back from 30 s to 1 s.
C2_IntervalFollowsStatus ==
    /\ last_status = 0 => update_interval = SCAN_INTERVAL_SLOW
    /\ last_status # 0 => update_interval = SCAN_INTERVAL_FAST

\* the last fast cycle read a non-standby status while the interval was 30 s
C2_Witness ==
    /\ prev_interval = SCAN_INTERVAL_SLOW
    /\ update_interval = SCAN_INTERVAL_FAST
    /\ last_status = 7 /\ data = Snapshot(7)

C4_RefreshEverySixty ==
    [][ \A o \in SideOutcomes, m \in MonitorOutcomes :
          (AsyncUpdateData(o, m)
           /\ connection_type = CONNECTION_CLOUD /\ activation_returned)
          => (Called(calls', "_refresh_app_id")
              <=> now - side_ok_at > APP_ID_REFRESH_INTERVAL) ]_vars

\* a second refresh has succeeded, a full period after the first one
C4_Witness ==
    /\ CalledWith(calls, "_refresh_app_id", "ok")
    /\ side_ok_at = now
    /\ now > 2 * APP_ID_REFRESH_INTERVAL

\* C5: in a fast poll whose side-channel call raises, get_monitor is still
\* called, and if it returns the cycle succeeds and the returned snapshot
\* replaces the cached one.
C5_SideFailureNeverFailsPoll ==
    [][ \A o \in SideOutcomes, m \in MonitorOutcomes :
          (AsyncUpdateData(o, m) /\ SideRaisedIn(calls'))
          => /\ Called(calls', "get_monitor")
             /\ m.res = "ok"
                => (outcome' = "ok" /\ last_update_success' /\ data' = m.val) ]_vars

\* a refresh raised and the same cycle succeeded with a snapshot
C5_Witness ==
    /\ CalledWith(calls, "_refresh_app_id", "raise")
    /\ outcome = "ok" /\ data.present

\* C6: a fast poll makes at most one side-channel call; a raised activation
\* leaves the connection not activated and a raised refresh leaves the
\* refresh time unchanged; and the poll after a cycle whose side-channel call
\* raised makes that same call again, whatever time has passed.
C6_NoBackoff ==
    [][ \A o \in SideOutcomes, m \in MonitorOutcomes :
          AsyncUpdateData(o, m) =>
            /\ Cardinality(SideCallsIn(calls')) <= 1
            /\ CalledWith(calls', "activate_app_connection", "raise")
               => ~app_id_activated'
            /\ CalledWith(calls', "_refresh_app_id", "raise")
               => last_app_id_refresh' = last_app_id_refresh
            /\ \A n \in SideCallNames :
                 CalledWith(calls, n, "raise") => Called(calls', n) ]_vars

\* a refresh raised in two cycles in a row
C6_Witness ==
    /\ side_failures = 2
    /\ CalledWith(calls, "_refresh_app_id", "raise")

\* C7 as stated: once a snapshot is cached the status sensor is available,
\* also when the most recent poll failed.
C7_AvailableAfterFailedPoll == data.present => SensorAvailable

\* C7 amended: the status sensor is available exactly when a snapshot is
\* cached and the most recent poll did not fail; after a failed poll the
\* snapshot stays cached but the sensor is unavailable.
C7_AvailableIffLastPollOk ==
    SensorAvailable <=> (data.present /\ outcome # "UpdateFailed")

\* a poll failed after one had succeeded: the snapshot is kept, the sensor
\* is unavailable
C7_Witness ==
    data.present /\ outcome = "UpdateFailed" /\ ~SensorAvailable

(***************************************************************************)
(* Properties of entry setup and the brew service, checked under SpecEntry *)
(***************************************************************************)
ResolutionStages == {"device_map", "create_device", "configure"}

\* C8 as stated: every setup that fails on resolving the device map or on
\* creating or configuring the device leaves the entry scheduled for a retry
\* by the host, and has written no record for it.
C8_EveryResolutionFailureRetried ==
    last_setup.stage \in ResolutionStages
    => (entry_state[last_setup.entry] = "setup_retry" /\ ~last_setup.wrote)

\* C8 amended: a device that cannot be created or configured ends setup with
\* ConfigEntryNotReady, on which the host schedules a retry; a built-in device
\* map that cannot be resolved ends setup by returning False, a setup error
\* the host does not retry; in both cases the setup leaves the registry and
\* the service registration as they were.
C8_ResolutionFailures ==
    [][ /\ last_setup'.stage = "device_map"
           => (/\ last_setup'.result = "False"
               /\ entry_state'[last_setup'.entry] = "setup_error"
               /\ registry' = registry
               /\ service_registered' = service_registered)
        /\ last_setup'.stage \in {"create_device", "configure"}
           => (/\ last_setup'.result = "ConfigEntryNotReady"
               /\ entry_state'[last_setup'.entry] = "setup_retry"
               /\ registry' = registry
               /\ service_registered' = service_registered) ]_vars

\* the first entry's device map could not be resolved (a setup error), the
\* second entry's device could not be created (a retry)
C8_Witness ==
    /\ last_setup.stage = "device_map" /\ last_setup.entry = "e1"
    /\ entry_state["e1"] = "setup_error"
    /\ entry_state["e2"] = "setup_retry"
    /\ "e2" \notin RegistryIds

\* C9: once an entry's record is in the registry the brew service is
\* registered, and a brew call made while the registry holds a record issues
\* exactly one brew_custom, to the device of the first record, and then
\* requests one refresh, of that record's coordinator.
C9_BrewIssuesOneCommand ==
    /\ registry # <<>> => service_registered
    /\ (last_brew.issued /\ last_brew.registry # <<>>)
       => (/\ Len(last_brew.calls) = 1
           /\ last_brew.calls[1].device = last_brew.registry[1].device
           /\ last_brew.refreshes = <<last_brew.registry[1].coordinator>>)

\* C10: a brew call made while the registry holds a record calls brew_custom
\* with None when the call sets no optional key, and otherwise with a mapping
\* of exactly the keys the call sets.
C10_BrewParams ==
    (last_brew.issued /\ last_brew.registry # <<>>)
    => (/\ Len(last_brew.calls) = 1
        /\ last_brew.calls[1].beverage = last_brew.call.beverage
        /\ last_brew.calls[1].arg.none = (DOMAIN last_brew.call.params = {})
        /\ last_brew.calls[1].arg.params = last_brew.call.params)

(***************************************************************************)
(* Properties of a button's extra attributes, checked under SpecRecipes    *)
(***************************************************************************)
RecipesOf(recipes, bev) == {i \in 1..Len(recipes) : recipes[i].bev_id = bev}
ProfileOneOf(recipes, bev) ==
    {i \in RecipesOf(recipes, bev) : recipes[i].profile = 1}
First(S) == CHOOSE i \in S : \A j \in S : i <= j

\* C11: the extra attributes of a button whose command names a beverage,
\* read while the properties coordinator holds data, are the named
\* parameters of the first profile-1 recipe of that beverage if there is
\* one, otherwise of the first recipe of that beverage; they are None if no
\* recipe is of that beverage or the chosen recipe has no named parameters.
C11_AttributesOfChosenRecipe ==
    (btn_attrs.read /\ props_data.present /\ btn_bev # NoBev)
    => LET recipes == props_data.recipes
           all == RecipesOf(recipes, btn_bev)
           ones == ProfileOneOf(recipes, btn_bev)
       IN  IF all = {}
           THEN btn_attrs.result = AttrsNone
           ELSE LET chosen == IF ones # {} THEN First(ones) ELSE First(all)
                IN  IF recipes[chosen].named_params = {}
                    THEN btn_attrs.result = AttrsNone
                    ELSE btn_attrs.result = Attrs(recipes[chosen].named_params)

\* the attributes were read where a recipe of another profile precedes the
\* profile-1 recipe of the button's beverage, and are the latter's
C11_Witness ==
    /\ btn_attrs.read /\ btn_bev = 1
    /\ props_data.present
    /\ props_data.recipes = <<RecipeOf(1, 2, {<<"coffee", 40>>}),
                              RecipeOf(1, 1, {<<"coffee", 60>>})>>
    /\ btn_attrs.result = Attrs({<<"coffee", 60>>})

(***************************************************************************)
(* Properties of the profile selector, checked under SpecSelect            *)
(***************************************************************************)
NumbersNamed(names, s) == {n \in DOMAIN names : names[n] = s}

\* C12: when the selector is added to the host, it selects a profile number
\* whose name, in the profile-name mapping the selector was set up with,
\* equals the persisted state string exactly; it selects profile 1 if no
\* name equals it or nothing (or an empty string) was persisted; and the
\* entry's selected_profile in the registry then holds the selected number.
C12_RestoreByName ==
    [][(sel_state = "created" /\ sel_state' = "added")
       => LET named == NumbersNamed(sel_profile_names, persisted.state)
          IN  /\ (persisted.present /\ persisted.state # "" /\ named # {})
                 => sel_selected' \in named
              /\ (~persisted.present \/ persisted.state = "" \/ named = {})
                 => sel_selected' = 1
              /\ RegistryRecord(registry', SelectEntry).selected_profile
                    = sel_selected']_vars

\* the persisted name was that of profile 4, which was restored
C12_Witness ==
    /\ sel_state = "added"
    /\ persisted = LastState("Ben")
    /\ sel_profile_names = (2 :> "Anna" @@ 4 :> "Ben")
    /\ sel_selected = 4
    /\ RegistryRecord(registry, SelectEntry).selected_profile = 4
    /\ ~last_select.done

\* a step of async_select_option
SelectStep ==
    /\ sel_state = "added"
    /\ (last_select' # last_select \/ sel_selected' # sel_selected)

\* a step of async_press of a beverage's button
BrewPressStep ==
    /\ last_press' # last_press
    /\ last_press'.cmd \in Beverages

\* what holds of a selection by the name of an existing profile: the
\* selector and the registry hold a number of that name, and no device call
\* was made
SelectionTaken ==
    LET names == NamesInUse(props_data, sel_profile_names)
        named == NumbersNamed(names, last_select'.option)
    IN  named # {}
        => /\ sel_selected' \in named
           /\ RegistryRecord(registry', SelectEntry).selected_profile
                 = sel_selected'
           /\ last_press' = last_press
           /\ calls' = calls

\* C13: a selection by the name of an existing profile leaves the selector's
\* and the registry's selected profile at that profile's number and makes no
\* device call, and a brew command issued after a selection carries the
\* selected profile.
C13_SelectionReachesBrew ==
    [][/\ SelectStep => SelectionTaken
       /\ (last_select.done /\ BrewPressStep)
          => last_press'.events[1].profile = sel_selected]_vars

\* C14: whenever the selector exists, its selected profile number is one of
\* 1..4 and its current option is one of the options it offers.
C14_CurrentOptionOffered ==
    sel_state \in {"created", "added"}
    => /\ sel_selected \in ProfileNumbers
       /\ \E i \in 1..Len(Options) : Options[i] = CurrentOption

(***************************************************************************)
(* Properties of the buttons, checked under SpecButton                     *)
(***************************************************************************)
EventsOf(events, ev) == {i \in 1..Len(events) : events[i].ev = ev}

\* C15: every press makes exactly one device call, of the button's command,
\* and exactly one refresh request, which comes after the device call.
C15_OneCommandOneRefresh ==
    last_press.pressed
    => /\ Cardinality(EventsOf(last_press.events, "do")) = 1
       /\ Cardinality(EventsOf(last_press.events, "request_refresh")) = 1
       /\ last_press.events[1].ev = "do"
       /\ last_press.events[1].cmd = last_press.cmd

\* C15 as amended: every press makes exactly one device call, of the button's
\* command, before anything else; if that call returns, exactly one refresh
\* request follows it, and if it raises, the press makes no refresh request.
C15_RefreshIfCommandReturned ==
    last_press.pressed
    => LET events == last_press.events
           refreshes == EventsOf(events, "request_refresh")
       IN  /\ Cardinality(EventsOf(events, "do")) = 1
           /\ events[1].ev = "do"
           /\ events[1].cmd = last_press.cmd
           /\ events[1].res = "ok" => Cardinality(refreshes) = 1
           /\ events[1].res = "raise" => refreshes = {}
           /\ \A i \in refreshes : i > 1

\* the stop button was pressed, its command returned and a refresh was
\* requested after it
C15_Witness ==
    /\ btn_setup = "done"
    /\ last_press.pressed /\ last_press.cmd = "stop"
    /\ last_press.events = <<DoCall("stop", "ok"), RequestRefresh("stop")>>

(***************************************************************************)
(* Properties of the polls followed step by step, checked under SpecAtomic *)
(***************************************************************************)
\* the records a properties poll can return, and the record before any poll
CompleteProps ==
    {NoProps} \cup {PropertiesData(snap) : snap \in PropertiesSnapshots}

\* C16: at every step of a poll, what either coordinator caches and what an
\* entity has read of it is a whole snapshot, never a record with fields of
\* two snapshots or with fields missing; the cached value changes only in
\* the step in which a poll has returned, and then to what the poll built.
C16_SnapshotsReplacedWhole ==
    [][/\ data' \in MonitorValues
       /\ seen_fast' \in MonitorValues
       /\ props_data' \in CompleteProps
       /\ seen_props' \in CompleteProps
       /\ data' # data => (pc_fast = "return" /\ data' = fast_local)
       /\ props_data' # props_data
          => (pc_props = "built" /\ props_data' = props_local)]_vars

\* a properties poll is half way through building the record of another
\* snapshot while an entity has read the record cached before it
C16_Witness ==
    /\ pc_props = "recipes"
    /\ props_data.present
    /\ seen_props = props_data
    /\ props_local.counters # props_data.counters
    /\ props_local.profile_names # props_data.profile_names
    /\ props_local.recipes = <<>>
    /\ pc_fast = "return" /\ fast_local # data

(***************************************************************************)
(* Properties of the sensor platform, checked under SpecSensor             *)
(***************************************************************************)
SetupReadSet == {SetupReads[i] : i \in 1..Len(SetupReads)}

\* C17: the properties coordinator holds a record only for a cloud device,
\* and every record it holds has every attribute the sensor platform reads
\* from it, at setup or when rendering, so that the platform's setup never
\* ends in an AttributeError.
C17_RecordHasEveryFieldRead ==
    /\ props_data.present => connection_type = CONNECTION_CLOUD
    /\ props_data.present
       => (SetupReadSet \cup RenderReads) \subseteq DOMAIN props_data
    /\ sensor_setup # "AttributeError"

ButtonsOf(c) == Cardinality({i \in 1..Len(buttons) : buttons[i] = c})
Listed(c) == \E i \in 1..Len(device_cmds) : device_cmds[i] = c

ButtonCommands == {buttons[i] : i \in 1..Len(buttons)}
StopButtons == {c \in ButtonCommands : Lower(c) = "stop"}

\* C20: while the fast coordinator holds a snapshot, a Stop button is
\* available only if the snapshot is busy and any other button only if it is
\* not busy, so that a Stop button and another button are never available
\* together, and no button is available when the last poll failed.
C20_StopXorBrewAvailable ==
    data.present
    => /\ \A c \in StopButtons :
             ButtonAvailable(c) = "true" => data.is_busy
       /\ \A c \in ButtonCommands \ StopButtons :
             ButtonAvailable(c) = "true" => ~data.is_busy
       /\ \A c \in StopButtons, d \in ButtonCommands \ StopButtons :
             ~(ButtonAvailable(c) = "true" /\ ButtonAvailable(d) = "true")
       /\ ~last_update_success
          => \A c \in ButtonCommands : ButtonAvailable(c) = "false"

\* the machine is busy after a good poll: of the stop and the espresso
\* button, the stop button alone is available
C20_Witness ==
    /\ data.present /\ data.is_busy /\ last_update_success
    /\ buttons = <<"stop", "espresso">>
    /\ ButtonAvailable("stop") = "true"
    /\ ButtonAvailable("espresso") = "false"

(***************************************************************************)
(* Properties of entry setup and unload, checked under SpecLifecycle       *)
(***************************************************************************)
\* C21: after any setups and unloads, the registry holds the record of an
\* entry exactly when the entry is set up, that is when its setup succeeded
\* and it was not unloaded successfully since.
C21_RegistryHoldsLoadedEntries ==
    \A e \in Entries :
        e \in RegistryIds <=> entry_state[e] \in {"loaded", "failed_unload"}

====
